---- MODULE Spec2Model ----
(***************************************************************************)
(* Session / presence / routing coordinator of the private chat server.    *)
(*                                                                         *)
(* The repository holds three revisions of backend/server.js:              *)
(*   "server" : src/server.js          (onlineUsers + typingUsers maps)    *)
(*   "part0"  : src/unnamed/part_000   (markAsRead / editMessage added)    *)
(*   "part1"  : src/unnamed/part_001   (presence read from the directory)  *)
(* The variable `variant` fixes which revision a behaviour runs. The       *)
(* second half of src/unnamed/part_001 is an older server with a single    *)
(* 'general' room and no private chat; it is not part of this model.       *)
(*                                                                         *)
(* Every handler is cut at its awaits: the step that issues a repository   *)
(* call, the step at which the repository applies it, and the step at      *)
(* which the handler resumes are separate actions, so that other handlers  *)
(* interleave exactly where the single-threaded event loop lets them.      *)
(***************************************************************************)
EXTENDS Integers, Sequences, FiniteSets, TLC

\* ---------------------------------------------------------------- bounds
MaxConn  == 3     \* sockets that exist in one behaviour
MaxClose == 1     \* transport disconnects in one behaviour
MaxMsgs  == 2     \* PrivateMessage documents constructed in one behaviour
MaxReq   == 2     \* client requests (join, send, read, edit, typing) issued
MaxIdLen == 2     \* characters of an identifier given to getPrivateRoomName

\* ------------------------------------------------------- program constants
MaxContentLen == 1000
HistoryLimit  == 50

\* ------------------------------------------------------------- vocabulary
Null      == "null"        \* a null Date or file descriptor
Stamp     == "date"        \* a Date value whose instant no operation reads
Undefined == <<-1>>        \* an undefined value where a string is expected
NoUser    == <<>>          \* socket.user of a socket that does not exist yet
NoRoom    == <<>>          \* an event that is not addressed to a room
NoSocket  == 0             \* socketId: null
Variants == {"server", "part0", "part1"}

\* User identifiers are strings of one fixed length (ObjectId hex strings in
\* the program); a string is a sequence of character codes.
UA == <<1>>
UB == <<2>>
UC == <<3>>
Users == {UA, UB, UC}
Space == 9                 \* the code of a whitespace character
Separator == <<0>>         \* '-private': characters no identifier contains

ConnIds == 1 .. MaxConn

\* The identity each socket authenticates as: sockets 1 and 3 are two
\* connections of UA, socket 2 is UB, socket 4 is UC.
UserOf(c) == IF c = 2 THEN UB ELSE IF c = 4 THEN UC ELSE UA

\* socket.io joins every socket to a room named by its own id when it
\* connects; socket ids are random strings no room name of the program equals.
OwnRoom(c) == <<-10 - c>>

\* ------------------------------------------------------- getPrivateRoomName
\* JavaScript's default comparison of two strings (code unit order).
RECURSIVE StrLeq(_, _)
StrLeq(a, b) ==
  IF a = <<>> THEN TRUE
  ELSE IF b = <<>> THEN FALSE
  ELSE IF Head(a) < Head(b) THEN TRUE
  ELSE IF Head(a) > Head(b) THEN FALSE
  ELSE StrLeq(Tail(a), Tail(b))

\* An array left in the order of the arguments.
KeepPair(x, y) == <<x, y>>

\* Array.prototype.sort on a two element array: undefined sorts last.
SortPair(x, y) ==
  IF x = Undefined THEN <<y, x>>
  ELSE IF y = Undefined THEN <<x, y>>
  ELSE IF StrLeq(x, y) THEN <<x, y>> ELSE <<y, x>>

\* Array.prototype.join renders undefined as the empty string.
JoinStr(x) == IF x = Undefined THEN <<>> ELSE x

GetPrivateRoomName(user1, user2) ==
  LET s == SortPair(user1, user2)
  IN  JoinStr(s[1]) \o Separator \o JoinStr(s[2])

\* ------------------------------------------------------------------ state
VARIABLES
  variant,        \* which revision of server.js runs
  conn,           \* per socket: identity, transport state, handler positions
  rooms,          \* socket.io adapter: the rooms each socket is joined to
  userRooms,      \* Map socket.id -> Set of room names
  onlineUsers,    \* Map user id -> presence entry (server, part0)
  userSocketMap,  \* Map user id -> socket.id (part0, part1)
  typingUsers,    \* Map room -> Set of typing keys (server)
  dbUsers,        \* User collection: isOnline / lastSeen per user
  db,             \* PrivateMessage collection, in insertion order
  ops,            \* handlers suspended at an await
  presence,       \* the latest io.emit presence broadcast and how many so far
  fanout,         \* the room-addressed events emitted so far, in order
  direct,         \* the socket.emit events emitted so far, in order
  clock,          \* the wall clock (Date.now())
  nextId,         \* documents constructed so far
  nReq,           \* client requests issued so far
  sent,           \* per constructed document: the request as the client sent it
  named           \* room names computed for pairs of identifiers

vars == <<variant, conn, rooms, userRooms, onlineUsers, userSocketMap,
          typingUsers, dbUsers, db, ops, presence, fanout, direct, clock,
          nextId, nReq, sent, named>>

\* Map helpers: a Map is a function whose DOMAIN is its key set.
\* A write that overwrites every entry of the map.
MapReset(m, k, v) == [x \in (DOMAIN m) \cup {k} |-> v]
MapSet(m, k, v) == [x \in (DOMAIN m) \cup {k} |-> IF x = k THEN v ELSE m[x]]
MapDelete(m, k) == [x \in (DOMAIN m) \ {k} |-> m[x]]
EmptyMap        == <<>>

FreeConn == [user |-> NoUser, open |-> FALSE, pc |-> "free", dpc |-> "none"]

\* ----------------------------------------------------------------- emits
\* One emitted event: its name, the sockets it is delivered to, the room it
\* was addressed to, the socket whose handler emitted it, and its payload
\* (msgs: message documents, users: a presence list).
Event(ev, to, room, src, msgs, users) ==
  [ev |-> ev, to |-> to, room |-> room, src |-> src, msgs |-> msgs,
   users |-> users]

OpenConns == {c \in ConnIds : conn[c].open}

\* io.emit: every connected socket of the namespace.
IoEmit(ev, src, users) == Event(ev, OpenConns, NoRoom, src, <<>>, users)

\* The sockets whose tracked set of joined rooms lists the room.
InRoomTracked(room) == {c \in ConnIds : room \in userRooms[c]}
\* io.to(room).emit: every socket joined to the room.
InRoom(room) == {c \in ConnIds : room \in rooms[c]}
\* An emit that ignores the room and reaches every connected socket.
IoToAll(room, ev, src, msgs) == Event(ev, OpenConns, room, src, msgs, {})
IoToRoom(room, ev, src, msgs) == Event(ev, InRoom(room), room, src, msgs, {})

\* socket.broadcast.to(room).emit: the room, except the emitting socket.
BroadcastToRoom(c, room, ev) ==
  Event(ev, InRoom(room) \ {c}, room, c, <<>>, {})

\* An emit that reaches every connected socket instead of the socket itself.
SocketEmitAll(c, ev, room, msgs) == Event(ev, OpenConns, room, c, msgs, {})

\* socket.emit: the socket itself; a closed socket receives nothing.
SocketEmit(c, ev, room, msgs) ==
  Event(ev, IF conn[c].open THEN {c} ELSE {}, room, c, msgs, {})

\* Presence broadcasts are not kept as a history: `presence` holds the
\* latest one, numbered by how many were emitted before it.
NoPresence ==
  [n |-> 0, ev |-> "none", to |-> {}, src |-> NoSocket, users |-> {}]
EmitPresence(e) ==
  presence' = [n |-> presence.n + 1, ev |-> e.ev, to |-> e.to, src |-> e.src,
               users |-> e.users]
EmitRoom(e)     == fanout' = Append(fanout, e)
EmitDirect(e)   == direct' = Append(direct, e)

Init ==
  /\ variant \in Variants
  /\ conn = [c \in ConnIds |-> FreeConn]
  /\ rooms = [c \in ConnIds |-> {}]
  /\ userRooms = EmptyMap
  /\ onlineUsers = EmptyMap
  /\ userSocketMap = EmptyMap
  /\ typingUsers = EmptyMap
  /\ dbUsers = [u \in Users |-> [isOnline |-> FALSE, lastSeen |-> Null]]
  /\ db = <<>>
  /\ ops = {}
  /\ presence = NoPresence
  /\ fanout = <<>>
  /\ direct = <<>>
  /\ clock = 0
  /\ nextId = 0
  /\ nReq = 0
  /\ sent = EmptyMap
  /\ named = <<>>

\* ------------------------------------------------- presence list payloads
\* Array.from(onlineUsers.values())
OnlineUsersList(m) == {m[u] : u \in DOMAIN m}

\* getAllUsersWithStatus: the directory with the stored isOnline / lastSeen
\* and `userSocketMap.get(id) || null`; [] when the directory query fails.
GetAllUsersWithStatus(ok) ==
  IF ok
  THEN {[id |-> u,
         isOnline |-> dbUsers[u].isOnline,
         lastSeen |-> dbUsers[u].lastSeen,
         socketId |-> IF u \in DOMAIN userSocketMap
                      THEN userSocketMap[u] ELSE NoSocket] : u \in Users}
  ELSE {}

\* ------------------------------------------------------------ connection
\* Socket ids are handed out in order: c is the next unused one.
IsNextFree(c) ==
  /\ conn[c].pc = "free"
  /\ \A d \in ConnIds : d < c => conn[d].pc # "free"

\* io.on('connection') up to `await User.findByIdAndUpdate(...)`.
Connection(c) ==
  /\ IsNextFree(c)
  /\ conn' = [conn EXCEPT ![c] =
                [user |-> UserOf(c), open |-> TRUE, pc |-> "updating", dpc |-> "none"]]
  /\ rooms' = [rooms EXCEPT ![c] = {OwnRoom(c)}]
  /\ UNCHANGED <<variant, named, sent, userRooms, onlineUsers, userSocketMap,
                 typingUsers, dbUsers, db, ops, presence, fanout, direct,
                 clock, nextId, nReq>>

\* The repository applies the connection handler's user-record update.
ConnectionUpdate(c) ==
  /\ conn[c].pc = "updating"
  /\ dbUsers' = [dbUsers EXCEPT ![conn[c].user] =
                   [isOnline |-> TRUE, lastSeen |-> Stamp]]
  /\ conn' = [conn EXCEPT ![c].pc = "updated"]
  /\ UNCHANGED <<variant, named, sent, rooms, userRooms, onlineUsers, userSocketMap,
                 typingUsers, db, ops, presence, fanout, direct, clock,
                 nextId, nReq>>

\* The update rejects: the catch block logs and calls socket.disconnect().
\* No handler has been registered, so the close runs no disconnect handler.
ConnectionUpdateFails(c) ==
  /\ conn[c].pc = "updating"
  /\ conn' = [conn EXCEPT ![c].pc = "failed", ![c].open = FALSE]
  /\ rooms' = [rooms EXCEPT ![c] = {}]
  /\ UNCHANGED <<variant, named, sent, userRooms, onlineUsers, userSocketMap, typingUsers,
                 dbUsers, db, ops, presence, fanout, direct, clock, nextId,
                 nReq>>

\* The presence entry the connection handler writes.
OnlineEntry(c) ==
  IF variant = "server"
  THEN [id |-> UserOf(c), socketId |-> c]
  ELSE [id |-> UserOf(c), socketId |-> c, isOnline |-> TRUE,
        lastSeen |-> Stamp]

RecordConnect(m, u, e) == MapSet(m, u, e)

\* The connection handler resumes after the update: registry writes, the
\* presence broadcast and (server, part0) the registration of the handlers.
ConnectionResume(c) ==
  LET u == conn[c].user IN
  /\ conn[c].pc = "updated"
  /\ userRooms' = MapSet(userRooms, c, {})
  /\ IF variant = "part1"
     THEN /\ userSocketMap' = RecordConnect(userSocketMap, u, c)
          /\ conn' = [conn EXCEPT ![c].pc = "listing"]
          /\ UNCHANGED <<onlineUsers, presence>>
     ELSE /\ onlineUsers' = RecordConnect(onlineUsers, u, OnlineEntry(c))
          /\ userSocketMap' = IF variant = "part0"
                              THEN RecordConnect(userSocketMap, u, c)
                              ELSE userSocketMap
          /\ EmitPresence(IoEmit("onlineUsers", c, OnlineUsersList(onlineUsers')))
          /\ conn' = [conn EXCEPT ![c].pc = "ready"]
  /\ UNCHANGED <<variant, named, sent, rooms, typingUsers, dbUsers, db, ops, clock,
                 nextId, nReq, fanout, direct>>

\* part1: `await broadcastAllUsers()` returns; the handlers are registered.
ConnectionBroadcast(c) ==
  /\ variant = "part1"
  /\ conn[c].pc = "listing"
  /\ \E ok \in BOOLEAN : EmitPresence(IoEmit("allUsers", c, GetAllUsersWithStatus(ok)))
  /\ conn' = [conn EXCEPT ![c].pc = "ready"]
  /\ UNCHANGED <<variant, named, sent, rooms, userRooms, onlineUsers, userSocketMap,
                 typingUsers, dbUsers, db, ops, clock, nextId, nReq, fanout,
                 direct>>

\* ------------------------------------------------------------- disconnect
\* The transport closes. socket.io removes the socket from all its rooms and
\* then fires 'disconnect', which runs the handler only if it is registered;
\* the handler runs up to its `await User.findByIdAndUpdate(...)`.
ClosedConns == {c \in ConnIds : conn[c].pc # "free" /\ ~conn[c].open}

Disconnect(c) ==
  /\ conn[c].open
  /\ Cardinality(ClosedConns) < MaxClose
  /\ conn' = [conn EXCEPT ![c].open = FALSE,
                          ![c].dpc = IF conn[c].pc = "ready"
                                     THEN "updating" ELSE "none"]
  /\ rooms' = [rooms EXCEPT ![c] = {}]
  /\ UNCHANGED <<variant, named, sent, userRooms, onlineUsers, userSocketMap, typingUsers,
                 dbUsers, db, ops, presence, fanout, direct, clock, nextId,
                 nReq>>

\* The repository applies the disconnect handler's user-record update.
DisconnectUpdate(c) ==
  /\ conn[c].dpc = "updating"
  /\ dbUsers' = [dbUsers EXCEPT ![conn[c].user] =
                   [isOnline |-> FALSE, lastSeen |-> Stamp]]
  /\ conn' = [conn EXCEPT ![c].dpc = "updated"]
  /\ UNCHANGED <<variant, named, sent, rooms, userRooms, onlineUsers, userSocketMap,
                 typingUsers, db, ops, presence, fanout, direct, clock,
                 nextId, nReq>>

\* The update rejects: the catch block logs, the rest of the handler is
\* skipped.
DisconnectUpdateFails(c) ==
  /\ conn[c].dpc = "updating"
  /\ conn' = [conn EXCEPT ![c].dpc = "failed"]
  /\ UNCHANGED <<variant, named, sent, rooms, userRooms, onlineUsers, userSocketMap,
                 typingUsers, dbUsers, db, ops, presence, fanout, direct,
                 clock, nextId, nReq>>

\* `${socket.user._id}-${socket.user.username}`: one key per user.
TypingKey(c) == conn[c].user

UserRoomsOf(c) == IF c \in DOMAIN userRooms THEN userRooms[c] ELSE {}

\* server: the disconnect handler's cleanup of typingUsers.
TypingCleanup(c) ==
  LET mine == UserRoomsOf(c)
      left(r) == IF r \in mine THEN typingUsers[r] \ {TypingKey(c)}
                 ELSE typingUsers[r]
  IN  [r \in {x \in DOMAIN typingUsers : ~(x \in mine /\ left(x) = {})}
         |-> left(r)]

OfflineEntry(u) ==
  [id |-> u, socketId |-> NoSocket, isOnline |-> FALSE, lastSeen |-> Stamp]

\* What the disconnect handler does to onlineUsers.
RecordDisconnect(m, u, c) ==
  IF variant = "server" THEN MapDelete(m, u) ELSE MapSet(m, u, OfflineEntry(u))

\* The disconnect handler resumes after the update.
DisconnectResume(c) ==
  LET u == conn[c].user IN
  /\ conn[c].dpc = "updated"
  /\ userRooms' = MapDelete(userRooms, c)
  /\ IF variant = "part1"
     THEN /\ userSocketMap' = MapDelete(userSocketMap, u)
          /\ conn' = [conn EXCEPT ![c].dpc = "listing"]
          /\ UNCHANGED <<onlineUsers, typingUsers, presence>>
     ELSE /\ onlineUsers' = RecordDisconnect(onlineUsers, u, c)
          /\ userSocketMap' = IF variant = "part0"
                              THEN MapDelete(userSocketMap, u)
                              ELSE userSocketMap
          /\ typingUsers' = IF variant = "server"
                            THEN TypingCleanup(c) ELSE typingUsers
          /\ EmitPresence(IoEmit("onlineUsers", c, OnlineUsersList(onlineUsers')))
          /\ conn' = [conn EXCEPT ![c].dpc = "done"]
  /\ UNCHANGED <<variant, named, sent, rooms, dbUsers, db, ops, clock, nextId, nReq,
                 fanout, direct>>

\* part1: `await broadcastAllUsers()` of the disconnect handler returns.
DisconnectBroadcast(c) ==
  /\ variant = "part1"
  /\ conn[c].dpc = "listing"
  /\ \E ok \in BOOLEAN : EmitPresence(IoEmit("allUsers", c, GetAllUsersWithStatus(ok)))
  /\ conn' = [conn EXCEPT ![c].dpc = "done"]
  /\ UNCHANGED <<variant, named, sent, rooms, userRooms, onlineUsers, userSocketMap,
                 typingUsers, dbUsers, db, ops, clock, nextId, nReq, fanout,
                 direct>>

\* ---------------------------------------------------------------- requests
\* A socket's handlers run only while it is connected and after the
\* connection handler has registered them.
Ready(c) == conn[c].open /\ conn[c].pc = "ready"

Targets  == Users \cup {Undefined}
FileDesc == "file"         \* an opaque descriptor produced by the upload route
Contents == {<<>>, <<Space, 7>>}
\* The (content, messageType, fileData) a client sends.
SendRequests ==
  {<<x, "text", Null>> : x \in Contents} \cup {<<Undefined, "file", FileDesc>>}

Op(kind, c, phase, target, docs) ==
  [id |-> nReq + 1, kind |-> kind, conn |-> c, phase |-> phase,
   target |-> target, docs |-> docs]

Min(a, b) == IF a < b THEN a ELSE b

Reverse(s) == [i \in 1 .. Len(s) |-> s[Len(s) + 1 - i]]

\* .sort({ createdAt: -1 })
RECURSIVE SortByCreatedAtDesc(_)
SortByCreatedAtDesc(S) ==
  IF S = {} THEN <<>>
  ELSE LET m == CHOOSE x \in S : \A y \in S : y.createdAt <= x.createdAt
       IN  <<m>> \o SortByCreatedAtDesc(S \ {m})

\* .limit(n)
Limit(s, n) == SubSeq(s, 1, Min(n, Len(s)))

Range(s) == {s[i] : i \in 1 .. Len(s)}

\* PrivateMessage.find({$or: [{sender: me, receiver: target},
\*                            {sender: target, receiver: me}]})
FindPair(me, target) ==
  {m \in Range(db) : \/ m.sender = me /\ m.receiver = target
                     \/ m.sender = target /\ m.receiver = me}

\* The same query without its sort: the first documents in insertion order.
RecentPrivateMessagesUnsorted(me, target) ==
  Limit(SelectSeq(db, LAMBDA m : m \in FindPair(me, target)), HistoryLimit)

\* The query of joinPrivateChat, before the handler reverses its result.
RecentPrivateMessages(me, target) ==
  Limit(SortByCreatedAtDesc(FindPair(me, target)), HistoryLimit)

\* ---------------------------------------------------------- joinPrivateChat
\* The handler up to `await PrivateMessage.find(...)`: server leaves every
\* room tracked in userRooms first, part0 / part1 only add the new room.
\* A handler that subscribes the socket to no room.
JoinedRoomsKept(c, room) == rooms[c]

\* A handler that joins the new room without leaving any.
JoinedRoomsAdded(c, room) == rooms[c] \cup {room}

\* The rooms the socket is joined to after the handler's leave / join calls.
JoinedRooms(c, room) ==
  IF variant = "server" THEN (rooms[c] \ UserRoomsOf(c)) \cup {room}
  ELSE rooms[c] \cup {room}

\* A handler that tracks only the room it has just joined, in every revision.
TrackedRoomsLatest(c, room) == {room}

\* The Set the handler stores in userRooms for the socket.
TrackedRooms(c, room) ==
  IF variant = "server" THEN {room} ELSE UserRoomsOf(c) \cup {room}

JoinPrivateChat(c, target) ==
  LET room == GetPrivateRoomName(conn[c].user, target) IN
  /\ Ready(c)
  /\ nReq < MaxReq
  /\ nReq' = nReq + 1
  /\ rooms' = [rooms EXCEPT ![c] = JoinedRooms(c, room)]
  /\ userRooms' = MapSet(userRooms, c, TrackedRooms(c, room))
  /\ ops' = ops \cup {Op("join", c, "find", target, <<>>)}
  /\ UNCHANGED <<variant, named, sent, conn, onlineUsers, userSocketMap, typingUsers,
                 dbUsers, db, presence, fanout, direct, clock, nextId>>

\* The repository answers the history query.
JoinFind(o) ==
  /\ o \in ops /\ o.kind = "join" /\ o.phase = "find"
  /\ ops' = (ops \ {o}) \cup
              {[o EXCEPT !.phase = "deliver",
                         !.docs = RecentPrivateMessages(conn[o.conn].user,
                                                        o.target)]}
  /\ UNCHANGED <<variant, named, sent, conn, rooms, userRooms, onlineUsers, userSocketMap,
                 typingUsers, dbUsers, db, presence, fanout, direct, clock,
                 nextId, nReq>>

\* The history query rejects: the catch block reports to the requester.
JoinFindFails(o) ==
  /\ o \in ops /\ o.kind = "join" /\ o.phase = "find"
  /\ ops' = ops \ {o}
  /\ EmitDirect(SocketEmit(o.conn, "error", NoRoom, <<>>))
  /\ UNCHANGED <<variant, named, sent, conn, rooms, userRooms, onlineUsers, userSocketMap,
                 typingUsers, dbUsers, db, clock, nextId, nReq, presence,
                 fanout>>

\* The handler resumes: socket.emit('recentMessages', ...reverse()).
JoinDeliver(o) ==
  /\ o \in ops /\ o.kind = "join" /\ o.phase = "deliver"
  /\ ops' = ops \ {o}
  /\ EmitDirect(SocketEmit(o.conn, "recentMessages",
                     GetPrivateRoomName(conn[o.conn].user, o.target),
                     Reverse(o.docs)))
  /\ UNCHANGED <<variant, named, sent, conn, rooms, userRooms, onlineUsers, userSocketMap,
                 typingUsers, dbUsers, db, clock, nextId, nReq, presence,
                 fanout>>

\* -------------------------------------------------------------- sendMessage
\* String.prototype.trim
TrimStart(s) ==
  LET leading == {i \in 1 .. Len(s) : \A j \in 1 .. i : s[j] = Space} IN
  SubSeq(s, Cardinality(leading) + 1, Len(s))
Trim(s) == Reverse(TrimStart(Reverse(TrimStart(s))))

Falsy(x) == x = Undefined \/ x = <<>>

\* A validation that turns away a text of exactly the maximal length.
SendVerdictBelowLimit(target, content, messageType) ==
  IF Falsy(target) THEN "noTarget"
  ELSE IF messageType = "text" /\ (Falsy(content) \/ Trim(content) = <<>>)
  THEN "empty"
  ELSE IF messageType = "text" /\ Len(content) >= MaxContentLen
  THEN "tooLong"
  ELSE "ok"

\* A validation without the rule for empty texts.
SendVerdictNoEmptyRule(target, content, messageType) ==
  IF Falsy(target) THEN "noTarget"
  ELSE IF messageType = "text" /\ Len(content) > MaxContentLen
  THEN "tooLong"
  ELSE "ok"

\* The validation at the head of the sendMessage handler.
SendVerdict(target, content, messageType) ==
  IF Falsy(target) THEN "noTarget"
  ELSE IF messageType = "text" /\ (Falsy(content) \/ Trim(content) = <<>>)
  THEN "empty"
  ELSE IF messageType = "text" /\ Len(content) > MaxContentLen
  THEN "tooLong"
  ELSE "ok"

\* new PrivateMessage({...}); the timestamps are set when save() is called.
NewPrivateMessage(c, target, content, messageType, fileData) ==
  [id |-> nextId + 1,
   sender |-> conn[c].user,
   receiver |-> target,
   content |-> IF messageType = "text" THEN Trim(content)
               ELSE IF variant = "server" THEN <<>> ELSE Undefined,
   messageType |-> messageType,
   fileData |-> fileData,
   createdAt |-> clock + 1,
   readBy |-> <<>>,
   edited |-> FALSE,
   editedAt |-> Null]

\* The handler up to `await privateMessage.save()`.
SendMessage(c, target, content, messageType, fileData) ==
  LET verdict == SendVerdict(target, content, messageType) IN
  /\ Ready(c)
  /\ nReq < MaxReq
  /\ nReq' = nReq + 1
  /\ IF verdict = "ok"
     THEN /\ nextId < MaxMsgs
          /\ nextId' = nextId + 1
          /\ clock' = clock + 1
          /\ ops' = ops \cup
               {Op("send", c, "save", target,
                   <<NewPrivateMessage(c, target, content, messageType,
                                       fileData)>>)}
          /\ sent' = MapSet(sent, nextId + 1,
                            [content |-> content, messageType |-> messageType,
                             fileData |-> fileData])
          /\ UNCHANGED direct
     ELSE /\ IF verdict = "empty"
             THEN UNCHANGED direct
             ELSE EmitDirect(SocketEmit(c, "error", NoRoom, <<>>))
          /\ UNCHANGED <<ops, nextId, clock, sent>>
  /\ UNCHANGED <<variant, named, conn, rooms, userRooms, onlineUsers, userSocketMap,
                 typingUsers, dbUsers, db, presence, fanout>>

\* The validators of privateMessageSchema that save() runs: content is
\* required for a text message and is at most 1000 characters long, and
\* messageType is one of the enum.
Validates(doc) ==
  /\ doc.messageType \in {"text", "file", "image"}
  /\ doc.messageType = "text" => ~Falsy(doc.content)
  /\ doc.content # Undefined => Len(doc.content) <= MaxContentLen

\* The repository inserts the document; the handler goes on to populate it.
SendSave(o) ==
  /\ o \in ops /\ o.kind = "send" /\ o.phase = "save"
  /\ Validates(o.docs[1])
  /\ db' = Append(db, o.docs[1])
  /\ ops' = (ops \ {o}) \cup {[o EXCEPT !.phase = "populate"]}
  /\ UNCHANGED <<variant, named, sent, conn, rooms, userRooms, onlineUsers, userSocketMap,
                 typingUsers, dbUsers, presence, fanout, direct, clock,
                 nextId, nReq>>

\* save() or one of the populate() calls rejects: the catch block reports to
\* the sender; a document already inserted stays.
SendFails(o) ==
  /\ o \in ops /\ o.kind = "send"
  /\ ops' = ops \ {o}
  /\ EmitDirect(SocketEmit(o.conn, "error", NoRoom, <<>>))
  /\ UNCHANGED <<variant, named, sent, conn, rooms, userRooms, onlineUsers, userSocketMap,
                 typingUsers, dbUsers, db, clock, nextId, nReq, presence,
                 fanout>>

\* The payload of the 'message' event, built from the saved document.
MessageData(saved, c, target) ==
  [id |-> saved.id,
   content |-> saved.content,
   sender |-> conn[c].user,
   receiver |-> saved.receiver,
   messageType |-> saved.messageType,
   fileData |-> saved.fileData,
   createdAt |-> saved.createdAt]

\* Both populate() calls have returned: io.to(room).emit('message', ...).
SendEmit(o) ==
  /\ o \in ops /\ o.kind = "send" /\ o.phase = "populate"
  /\ ops' = ops \ {o}
  /\ EmitRoom(IoToRoom(GetPrivateRoomName(conn[o.conn].user, o.target),
                   "message", o.conn,
                   <<MessageData(o.docs[1], o.conn, o.target)>>))
  /\ UNCHANGED <<variant, named, sent, conn, rooms, userRooms, onlineUsers, userSocketMap,
                 typingUsers, dbUsers, db, clock, nextId, nReq, presence,
                 direct>>

\* ----------------------------------------------------- markAsRead / edit
\* The ids a client may name: the stored message's, and those of documents
\* a behaviour constructs (an id not in the collection yet is unknown).
MsgIds == {-1} \cup (1 .. MaxMsgs)

\* A lookup that finds every stored document, whatever id is asked for.
IndexOfAny(id) == 1 .. Len(db)
\* findById: the positions of the documents with this id.
IndexOf(id) == {i \in 1 .. Len(db) : db[i].id = id}

\* $addToSet: append unless an equal element is already present.
AddToSet(set, e) ==
  IF \E i \in 1 .. Len(set) : set[i] = e THEN set ELSE Append(set, e)

\* part0 / part1: the markAsRead handler and the update the repository
\* applies for it (findByIdAndUpdate with $addToSet, {new: true}); readAt is
\* `new Date()`, read at clock or one tick later. An unknown id yields null
\* and the handler ends without emitting.
MarkAsRead(c, id) ==
  /\ variant # "server"
  /\ Ready(c)
  /\ nReq < MaxReq
  /\ nReq' = nReq + 1
  /\ \E t \in {clock, clock + 1} :
       /\ clock' = t
       /\ IF IndexOf(id) = {}
          THEN UNCHANGED <<db, ops>>
          ELSE LET i == CHOOSE j \in IndexOf(id) : TRUE
                   e == [user |-> conn[c].user, readAt |-> t]
               IN  /\ db' = [db EXCEPT ![i].readBy = AddToSet(@, e)]
                   /\ ops' = ops \cup {Op("read", c, "emit", Undefined,
                                          <<db'[i]>>)}
  /\ UNCHANGED <<variant, named, sent, conn, rooms, userRooms, onlineUsers, userSocketMap,
                 typingUsers, dbUsers, presence, fanout, direct, nextId>>

\* An update that replaces the content and leaves the edit marks alone.
EditUpdateContentOnly(m, newContent) == [m EXCEPT !.content = newContent]
\* { content: newContent, edited: true, editedAt: new Date() }
EditUpdate(m, newContent) ==
  [m EXCEPT !.content = newContent, !.edited = TRUE, !.editedAt = Stamp]

\* part0 / part1: the editMessage handler and its update (no validators run
\* on findByIdAndUpdate, no check of who asks).
EditMessage(c, id, newContent) ==
  /\ variant # "server"
  /\ Ready(c)
  /\ nReq < MaxReq
  /\ nReq' = nReq + 1
  /\ IF IndexOf(id) = {}
     THEN UNCHANGED <<db, ops>>
     ELSE LET i == CHOOSE j \in IndexOf(id) : TRUE
          IN  /\ db' = [db EXCEPT ![i] = EditUpdate(@, newContent)]
              /\ ops' = ops \cup {Op("edit", c, "emit", Undefined, <<db'[i]>>)}
  /\ UNCHANGED <<variant, named, sent, conn, rooms, userRooms, onlineUsers, userSocketMap,
                 typingUsers, dbUsers, presence, fanout, direct, clock,
                 nextId>>

\* A room computed from the sender alone.
RoomOfSender(m) == GetPrivateRoomName(m.sender, m.sender)
\* The room markAsRead / editMessage address: that of the updated document.
RoomOf(m) == GetPrivateRoomName(m.sender, m.receiver)

\* The handler resumes with the updated document and fans it out.
UpdatedEmit(o) ==
  /\ o \in ops /\ o.kind \in {"read", "edit"} /\ o.phase = "emit"
  /\ ops' = ops \ {o}
  /\ EmitRoom(IoToRoom(RoomOf(o.docs[1]),
                   IF o.kind = "read" THEN "messageRead" ELSE "messageEdited",
                   o.conn, o.docs))
  /\ UNCHANGED <<variant, named, sent, conn, rooms, userRooms, onlineUsers, userSocketMap,
                 typingUsers, dbUsers, db, clock, nextId, nReq, presence,
                 direct>>

\* findByIdAndUpdate rejects for a markAsRead or editMessage request: nothing
\* is updated, and the catch block only logs.
UpdateFails(c) ==
  /\ variant # "server"
  /\ Ready(c)
  /\ nReq < MaxReq
  /\ nReq' = nReq + 1
  /\ UNCHANGED <<variant, named, sent, conn, rooms, userRooms, onlineUsers,
                 userSocketMap, typingUsers, dbUsers, db, ops, presence,
                 fanout, direct, clock, nextId>>

\* The update is applied and the chained populate() rejects: the catch
\* block only logs, the handler ends without emitting.
UpdatedFails(o) ==
  /\ o \in ops /\ o.kind \in {"read", "edit"} /\ o.phase = "emit"
  /\ ops' = ops \ {o}
  /\ UNCHANGED <<variant, named, sent, conn, rooms, userRooms, onlineUsers,
                 userSocketMap, typingUsers, dbUsers, db, clock, nextId, nReq,
                 presence, fanout, direct>>

\* ------------------------------------------------------ typing / stopTyping
TypingSet(room) == IF room \in DOMAIN typingUsers THEN typingUsers[room] ELSE {}

\* server keeps the typing keys of each room and rebroadcasts only a change;
\* part0 / part1 rebroadcast every signal.
Typing(c, target) ==
  LET room == GetPrivateRoomName(conn[c].user, target) IN
  /\ Ready(c)
  /\ nReq < MaxReq
  /\ nReq' = nReq + 1
  /\ IF Falsy(target)
     THEN UNCHANGED <<typingUsers, fanout>>
     ELSE IF variant = "server"
     THEN /\ typingUsers' = MapSet(typingUsers, room,
                                   TypingSet(room) \cup {TypingKey(c)})
          /\ IF TypingKey(c) \in TypingSet(room)
             THEN UNCHANGED fanout
             ELSE EmitRoom(BroadcastToRoom(c, room, "typing"))
     ELSE /\ EmitRoom(BroadcastToRoom(c, room, "typing"))
          /\ UNCHANGED typingUsers
  /\ UNCHANGED <<variant, named, sent, conn, rooms, userRooms, onlineUsers, userSocketMap,
                 dbUsers, db, ops, clock, nextId, presence, direct>>

StopTyping(c, target) ==
  LET room == GetPrivateRoomName(conn[c].user, target) IN
  /\ Ready(c)
  /\ nReq < MaxReq
  /\ nReq' = nReq + 1
  /\ IF Falsy(target)
     THEN UNCHANGED <<typingUsers, fanout>>
     ELSE IF variant = "server"
     THEN IF room \in DOMAIN typingUsers /\ TypingKey(c) \in typingUsers[room]
          THEN /\ typingUsers' = [typingUsers EXCEPT ![room] = @ \ {TypingKey(c)}]
               /\ EmitRoom(BroadcastToRoom(c, room, "stopTyping"))
          ELSE UNCHANGED <<typingUsers, fanout>>
     ELSE /\ EmitRoom(BroadcastToRoom(c, room, "stopTyping"))
          /\ UNCHANGED typingUsers
  /\ UNCHANGED <<variant, named, sent, conn, rooms, userRooms, onlineUsers, userSocketMap,
                 dbUsers, db, ops, clock, nextId, presence, direct>>

\* ------------------------------------------------------ established state
\* The state in which sockets 1 .. MaxConn have connected one after the
\* other, each connection handler running to its end before the next socket
\* arrives. The sockets in J have joined the chat with their usual partner
\* and received the history; the collection holds the documents D.
Partner(u) == IF u = UA THEN UB ELSE UA

RECURSIVE EstablishedOnline(_)
EstablishedOnline(k) ==
  IF k = 0 THEN EmptyMap
  ELSE RecordConnect(EstablishedOnline(k - 1), UserOf(k), OnlineEntry(k))

RECURSIVE EstablishedSockets(_)
EstablishedSockets(k) ==
  IF k = 0 THEN EmptyMap
  ELSE RecordConnect(EstablishedSockets(k - 1), UserOf(k), k)

\* n documents UA and UB exchanged before the behaviour starts, oldest
\* first, sent in turn by UA and UB; the newest has id -1.
Stored(n) ==
  [i \in 1 .. n |->
     [id |-> i - n - 1,
      sender |-> IF i % 2 = 1 THEN UA ELSE UB,
      receiver |-> IF i % 2 = 1 THEN UB ELSE UA,
      content |-> <<7>>,
      messageType |-> "text",
      fileData |-> Null,
      createdAt |-> i - n - 1,
      readBy |-> <<>>,
      edited |-> FALSE,
      editedAt |-> Null]]

EstablishedState(J, D) ==
  /\ variant \in Variants
  /\ conn = [c \in ConnIds |->
               [user |-> UserOf(c), open |-> TRUE, pc |-> "ready",
                dpc |-> "none"]]
  /\ userRooms = [c \in ConnIds |->
                    IF c \in J
                    THEN {GetPrivateRoomName(UserOf(c), Partner(UserOf(c)))}
                    ELSE {}]
  /\ rooms = [c \in ConnIds |-> {OwnRoom(c)} \cup userRooms[c]]
  /\ onlineUsers = IF variant = "part1" THEN EmptyMap
                   ELSE EstablishedOnline(MaxConn)
  /\ userSocketMap = IF variant = "server" THEN EmptyMap
                     ELSE EstablishedSockets(MaxConn)
  /\ typingUsers = EmptyMap
  /\ dbUsers = [u \in Users |->
                  IF \E c \in ConnIds : UserOf(c) = u
                  THEN [isOnline |-> TRUE, lastSeen |-> Stamp]
                  ELSE [isOnline |-> FALSE, lastSeen |-> Null]]
  /\ db = D
  /\ ops = {}
  /\ presence = NoPresence
  /\ fanout = <<>>
  /\ direct = <<>>
  /\ clock = 0
  /\ nextId = 0
  /\ nReq = 0
  /\ sent = EmptyMap
  /\ named = <<>>

\* Any of the sockets has joined, nothing is stored.
InitEstablished == \E J \in SUBSET ConnIds : EstablishedState(J, <<>>)

\* All sockets or none have joined, one message of UA to UB is stored.
InitConversation == \E J \in {{}, ConnIds} : EstablishedState(J, Stored(1))

\* No socket has joined; UA and UB have exchanged no message, or as many as
\* a history holds.
InitHistory ==
  \E n \in {0, HistoryLimit} : EstablishedState({}, Stored(n))

\* ------------------------------------------------------------ next state
Next ==
  \/ \E c \in ConnIds : Connection(c)
  \/ \E c \in ConnIds : ConnectionUpdate(c)
  \/ \E c \in ConnIds : ConnectionUpdateFails(c)
  \/ \E c \in ConnIds : ConnectionResume(c)
  \/ \E c \in ConnIds : ConnectionBroadcast(c)
  \/ \E c \in ConnIds : Disconnect(c)
  \/ \E c \in ConnIds : DisconnectUpdate(c)
  \/ \E c \in ConnIds : DisconnectUpdateFails(c)
  \/ \E c \in ConnIds : DisconnectResume(c)
  \/ \E c \in ConnIds : DisconnectBroadcast(c)
  \/ \E c \in ConnIds, t \in Users : JoinPrivateChat(c, t)
  \/ \E o \in ops : JoinFind(o)
  \/ \E o \in ops : JoinFindFails(o)
  \/ \E o \in ops : JoinDeliver(o)
  \/ \E c \in ConnIds, t \in Targets, r \in SendRequests :
       SendMessage(c, t, r[1], r[2], r[3])
  \/ \E o \in ops : SendSave(o)
  \/ \E o \in ops : SendFails(o)
  \/ \E o \in ops : SendEmit(o)
  \/ \E c \in ConnIds, id \in MsgIds : MarkAsRead(c, id)
  \/ \E c \in ConnIds, id \in MsgIds, x \in Contents : EditMessage(c, id, x)
  \/ \E o \in ops : UpdatedEmit(o)
  \/ \E c \in ConnIds : UpdateFails(c)
  \/ \E o \in ops : UpdatedFails(o)
  \/ \E c \in ConnIds, t \in Targets : Typing(c, t)
  \/ \E c \in ConnIds, t \in Targets : StopTyping(c, t)

Spec == Init /\ [][Next]_vars

\* The connection life cycle alone, from the start of the process.
NextPresence ==
  \/ \E c \in ConnIds : Connection(c)
  \/ \E c \in ConnIds : ConnectionUpdate(c)
  \/ \E c \in ConnIds : ConnectionUpdateFails(c)
  \/ \E c \in ConnIds : ConnectionResume(c)
  \/ \E c \in ConnIds : ConnectionBroadcast(c)
  \/ \E c \in ConnIds : Disconnect(c)
  \/ \E c \in ConnIds : DisconnectUpdate(c)
  \/ \E c \in ConnIds : DisconnectUpdateFails(c)
  \/ \E c \in ConnIds : DisconnectResume(c)
  \/ \E c \in ConnIds : DisconnectBroadcast(c)

SpecPresence == Init /\ [][NextPresence]_vars

\* sendMessage requests among established sockets.
NextSend ==
  \/ \E c \in ConnIds, t \in Targets, r \in SendRequests :
       SendMessage(c, t, r[1], r[2], r[3])
  \/ \E o \in ops : SendSave(o)
  \/ \E o \in ops : SendFails(o)
  \/ \E o \in ops : SendEmit(o)

SpecSend == InitEstablished /\ [][NextSend]_vars

\* markAsRead / editMessage requests on a stored conversation.
NextRead ==
  \/ \E c \in ConnIds, id \in MsgIds : MarkAsRead(c, id)
  \/ \E c \in ConnIds, id \in MsgIds, x \in Contents : EditMessage(c, id, x)
  \/ \E o \in ops : UpdatedEmit(o)
  \/ \E c \in ConnIds : UpdateFails(c)
  \/ \E o \in ops : UpdatedFails(o)

SpecRead == InitConversation /\ [][NextRead]_vars

\* Joins and the disconnect life cycle: everything that writes the room
\* subscriptions or userRooms.
NextRooms ==
  \/ \E c \in ConnIds, t \in Users : JoinPrivateChat(c, t)
  \/ \E o \in ops : JoinFind(o)
  \/ \E o \in ops : JoinFindFails(o)
  \/ \E o \in ops : JoinDeliver(o)
  \/ \E c \in ConnIds : Disconnect(c)
  \/ \E c \in ConnIds : DisconnectUpdate(c)
  \/ \E c \in ConnIds : DisconnectUpdateFails(c)
  \/ \E c \in ConnIds : DisconnectResume(c)
  \/ \E c \in ConnIds : DisconnectBroadcast(c)

SpecRooms == InitConversation /\ [][NextRooms]_vars

\* The messaging protocol on a stored conversation: every handler that
\* subscribes a socket to a room or emits an event about a message, and the
\* transport close.
NextChat ==
  \/ \E c \in ConnIds, t \in Users : JoinPrivateChat(c, t)
  \/ \E o \in ops : JoinFind(o)
  \/ \E o \in ops : JoinFindFails(o)
  \/ \E o \in ops : JoinDeliver(o)
  \/ \E c \in ConnIds, t \in Targets, r \in SendRequests :
       SendMessage(c, t, r[1], r[2], r[3])
  \/ \E o \in ops : SendSave(o)
  \/ \E o \in ops : SendFails(o)
  \/ \E o \in ops : SendEmit(o)
  \/ \E c \in ConnIds, id \in MsgIds : MarkAsRead(c, id)
  \/ \E c \in ConnIds, id \in MsgIds, x \in Contents : EditMessage(c, id, x)
  \/ \E o \in ops : UpdatedEmit(o)
  \/ \E c \in ConnIds : UpdateFails(c)
  \/ \E o \in ops : UpdatedFails(o)
  \/ \E c \in ConnIds : Disconnect(c)

SpecChat == InitConversation /\ [][NextChat]_vars

\* Joins and sends on a conversation as long as a history.
NextHistory ==
  \/ \E c \in ConnIds, t \in Users : JoinPrivateChat(c, t)
  \/ \E o \in ops : JoinFind(o)
  \/ \E o \in ops : JoinFindFails(o)
  \/ \E o \in ops : JoinDeliver(o)
  \/ \E c \in ConnIds, t \in Targets, r \in SendRequests :
       SendMessage(c, t, r[1], r[2], r[3])
  \/ \E o \in ops : SendSave(o)
  \/ \E o \in ops : SendFails(o)
  \/ \E o \in ops : SendEmit(o)

SpecHistory == InitHistory /\ [][NextHistory]_vars

\* ================================================================ properties
\* ------------------------------------------------------- presence registry
\* What the presence registry of the running revision says about user u:
\* whether it records u as online, and under which socket id.
RecordedOnline(u) ==
  IF variant = "server" THEN u \in DOMAIN onlineUsers
  ELSE IF variant = "part0"
  THEN u \in DOMAIN onlineUsers /\ onlineUsers[u].isOnline
  ELSE u \in DOMAIN userSocketMap

ActiveConn(u) ==
  IF variant = "part1"
  THEN (IF u \in DOMAIN userSocketMap THEN userSocketMap[u] ELSE NoSocket)
  ELSE (IF u \in DOMAIN onlineUsers THEN onlineUsers[u].socketId
        ELSE NoSocket)

\* The connection handler of socket c has run to its end and the socket is
\* still connected.
HandlerDone(c) ==
  conn[c].pc = "ready" /\ conn[c].open /\ conn[c].dpc = "none"

\* The disconnect handler of socket c writes the registry in this step.
RecordsDisconnect(c) == conn[c].dpc = "updated" /\ conn'[c].dpc # "updated"

\* C3: when the disconnect handler of a socket that is not the recorded
\* active connection of its user writes the registry (a stale disconnect),
\* a user who was recorded online stays recorded online.
C3_StaleDisconnectKeepsOnline ==
  [][\A c \in ConnIds :
       (/\ RecordsDisconnect(c)
        /\ RecordedOnline(UserOf(c))
        /\ ActiveConn(UserOf(c)) # c)
       => RecordedOnline(UserOf(c))']_vars

\* C4: when the connection handlers of two sockets c1 < c2 of one user have
\* both run to their end, neither has disconnected and no later socket of
\* the user exists, the registry has an entry for the user and its socket id
\* is c2.
C4_LastConnectWins ==
  \A c1, c2 \in ConnIds :
    (/\ c1 < c2
     /\ UserOf(c1) = UserOf(c2)
     /\ HandlerDone(c1)
     /\ HandlerDone(c2)
     /\ \A d \in ConnIds : (d > c2 /\ UserOf(d) = UserOf(c2))
                              => conn[d].pc = "free")
    => /\ RecordedOnline(UserOf(c2))
       /\ ActiveConn(UserOf(c2)) = c2

\* The disconnect handler of socket c comes to its end in this step.
DisconnectProcessed(c) ==
  /\ conn[c].dpc \in {"updating", "updated", "listing"}
  /\ conn'[c].dpc \in {"done", "failed"}

\* C8: the step that ends a socket's disconnect handler leaves the socket in
\* no room and emits a presence broadcast to every socket still connected;
\* and no room event is ever delivered to a socket that is closed.
C8_DisconnectProcessed ==
  [][/\ \A c \in ConnIds :
          DisconnectProcessed(c)
          => /\ rooms'[c] = {}
             /\ presence'.n = presence.n + 1
             /\ presence'.src = c
             /\ presence'.to = {d \in ConnIds : conn'[d].open}
     /\ Len(fanout') > Len(fanout)
          => \A d \in fanout'[Len(fanout')].to : conn[d].open]_vars

\* The presence list holds an entry that shows u offline with a lastSeen.
HasOfflineEntry(list, u) ==
  \E e \in list : e.id = u /\ e.isOnline = FALSE /\ e.lastSeen # Null

\* C9: when the latest presence broadcast is the one the disconnect handler
\* of socket c emitted and c was the only socket of its user, the broadcast
\* holds an entry for the user with isOnline false and a non-null lastSeen.
C9_OfflineEntryBroadcast ==
  \A c \in ConnIds :
    (/\ presence.src = c
     /\ conn[c].dpc = "done"
     /\ \A d \in ConnIds \ {c} : conn[d].user # UserOf(c))
    => HasOfflineEntry(presence.users, UserOf(c))

\* ------------------------------------------------------------------ rooms
\* The room key of the unordered pair {a, b}, as the specification defines
\* it: the smaller identifier, the separator, the larger identifier.
Canonical(a, b) ==
  IF StrLeq(a, b) THEN a \o Separator \o b ELSE b \o Separator \o a

Last(s) == s[Len(s)]

MessageEvents == {"message", "messageRead", "messageEdited"}

\* Position of the document with this id in the collection (0: not stored).
Pos(id) == IF IndexOf(id) = {} THEN 0 ELSE CHOOSE i \in IndexOf(id) : TRUE

\* C1: the step that fans out a `message` event delivers it to exactly the
\* sockets subscribed to canonical(sender, receiver) at that moment; the
\* event carries the content of the persisted document and the identity of
\* the requesting socket as sender; and no earlier `message` event was for
\* the same document.
C1_FanOutExactlyOnce ==
  [][(Len(fanout') > Len(fanout) /\ Last(fanout').ev = "message")
       => LET e == Last(fanout')
              m == e.msgs[1]
          IN  /\ e.to = {c \in ConnIds :
                           Canonical(m.sender, m.receiver) \in rooms[c]}
              /\ Pos(m.id) # 0
              /\ db[Pos(m.id)].content = m.content
              /\ db[Pos(m.id)].sender = m.sender
              /\ m.sender = UserOf(e.src)
              /\ \A j \in 1 .. Len(fanout) :
                   ~(fanout[j].ev = "message" /\ fanout[j].msgs[1].id = m.id)
    ]_vars

\* A `message` event has reached several sockets, the sender's own among
\* them, while another connected socket was not a recipient.
C1_Witness ==
  \E i \in 1 .. Len(fanout) :
    /\ fanout[i].ev = "message"
    /\ Cardinality(fanout[i].to) >= 2
    /\ fanout[i].src \in fanout[i].to
    /\ \E c \in ConnIds : conn[c].open /\ c \notin fanout[i].to

\* C2: of two `message` events fanned out into one room, the earlier one is
\* for the document whose save completed earlier.
C2_FanOutInSaveOrder ==
  \A i, j \in 1 .. Len(fanout) :
    (/\ i < j
     /\ fanout[i].ev = "message"
     /\ fanout[j].ev = "message"
     /\ fanout[i].room = fanout[j].room)
    => Pos(fanout[i].msgs[1].id) < Pos(fanout[j].msgs[1].id)

\* C5: no stored message ever holds two readBy entries of one reader.
C5_MarkAsReadIdempotent ==
  \A i \in 1 .. Len(db) : \A u \in Users :
    Cardinality({k \in 1 .. Len(db[i].readBy) : db[i].readBy[k].user = u}) <= 1

\* C6: every event about a message m was addressed to the room
\* canonical(m.sender, m.receiver) and reached only sockets of m.sender or
\* m.receiver; and a socket subscribed to canonical(a, b) is a socket of a
\* or of b.
C6_EventsReachParticipants ==
  /\ \A i \in 1 .. Len(fanout) :
       fanout[i].ev \in MessageEvents
       => LET m == fanout[i].msgs[1] IN
          /\ fanout[i].room = Canonical(m.sender, m.receiver)
          /\ \A c \in fanout[i].to : UserOf(c) \in {m.sender, m.receiver}
  /\ \A c \in ConnIds : \A a, b \in Users :
       Canonical(a, b) \in rooms[c] => conn[c].user \in {a, b}

\* An event about a message between UA and UC has been delivered while the
\* socket of UB was connected and subscribed to a private room.
C6_Witness ==
  \E i \in 1 .. Len(fanout) :
    /\ fanout[i].ev \in MessageEvents
    /\ fanout[i].to # {}
    /\ UB \notin {fanout[i].msgs[1].sender, fanout[i].msgs[1].receiver}
    /\ \E c \in ConnIds :
         UserOf(c) = UB /\ conn[c].open /\ rooms[c] # {OwnRoom(c)}

\* The private rooms a socket is subscribed to at the transport.
PrivateRooms(c) == rooms[c] \ {OwnRoom(c)}

\* C7 as stated: in every state the private rooms of a socket are exactly
\* its userRooms entry.
C7_RoomsEqualTracked ==
  \A c \in ConnIds : PrivateRooms(c) = UserRoomsOf(c)

\* C7 as the program has it: the private rooms of a socket are always among
\* its userRooms entry, and are exactly that entry while the socket is
\* connected.
C7_RoomsWithinTracked ==
  \A c \in ConnIds :
    /\ PrivateRooms(c) \subseteq UserRoomsOf(c)
    /\ conn[c].open => PrivateRooms(c) = UserRoomsOf(c)

\* A socket has closed and its userRooms entry still names a room, while
\* another socket is connected and subscribed to two private rooms.
C7_Witness ==
  /\ \E c \in ConnIds : ~conn[c].open /\ UserRoomsOf(c) # {}
  /\ \E d \in ConnIds : conn[d].open /\ Cardinality(PrivateRooms(d)) = 2

\* ---------------------------------------------------------------- history
\* The messages user a and user b have exchanged, in either direction.
Exchanged(a, b) ==
  {m \in Range(db) : <<m.sender, m.receiver>> \in {<<a, b>>, <<b, a>>}}

\* S is the set of the (at most HistoryLimit) most recently created
\* messages a and b have exchanged.
MostRecent(S, a, b) ==
  /\ S \subseteq Exchanged(a, b)
  /\ Cardinality(S) = Min(HistoryLimit, Cardinality(Exchanged(a, b)))
  /\ \A x \in S : \A y \in Exchanged(a, b) \ S : y.createdAt < x.createdAt

OldestFirst(s) ==
  \A i, j \in 1 .. Len(s) : i < j => s[i].createdAt < s[j].createdAt

\* C10: the step that handles joinPrivateChat(target) leaves the socket
\* subscribed to canonical(requester, target); the history query answers
\* with the most recent messages of the pair; and the `recentMessages` event
\* goes to the requesting socket only and lists the answer oldest first.
C10_JoinDeliversRecent ==
  [][/\ \A o \in ops' \ ops :
          (o.kind = "join" /\ o.phase = "find")
          => Canonical(UserOf(o.conn), o.target) \in rooms'[o.conn]
     /\ \A o \in ops' \ ops :
          (o.kind = "join" /\ o.phase = "deliver")
          => /\ Len(o.docs) = Cardinality(Range(o.docs))
             /\ MostRecent(Range(o.docs), UserOf(o.conn), o.target)
     /\ (Len(direct') > Len(direct) /\ Last(direct').ev = "recentMessages")
          => LET e == Last(direct') IN
             /\ e.to \subseteq {e.src}
             /\ OldestFirst(e.msgs)
             /\ Len(e.msgs) <= HistoryLimit
             /\ \E o \in ops \ ops' :
                  /\ o.kind = "join" /\ o.conn = e.src
                  /\ e.room = Canonical(UserOf(o.conn), o.target)
                  /\ Range(e.msgs) = Range(o.docs)
                  /\ Len(e.msgs) = Len(o.docs)
    ]_vars

\* A requester has received a full history although the pair has exchanged
\* more messages than a history holds, one of them sent after the start.
C10_Witness ==
  \E i \in 1 .. Len(direct) :
    /\ direct[i].ev = "recentMessages"
    /\ direct[i].to = {direct[i].src}
    /\ Len(direct[i].msgs) = HistoryLimit
    /\ Cardinality(Exchanged(UA, UB)) > HistoryLimit
    /\ \E k \in 1 .. HistoryLimit : direct[i].msgs[k].id > 0

\* ------------------------------------------------- the length boundary
\* A text of n characters none of which is white space.
LongText(n) == [i \in 1 .. n |-> 7]

\* Texts one short of the limit, at it and one over it, counted with and
\* without a leading blank.
BoundaryContents ==
  {LongText(MaxContentLen - 1), LongText(MaxContentLen),
   LongText(MaxContentLen + 1),
   <<Space>> \o LongText(MaxContentLen - 1),
   <<Space>> \o LongText(MaxContentLen)}

\* Texts the handler takes for empty: none, the empty one, blanks only.
BlankContents == {Undefined, <<>>, <<Space, Space>>}

\* The socket that sends the texts, and the targets it names.
BoundarySender == CHOOSE c \in ConnIds : \A d \in ConnIds : c <= d
BoundaryTargets == {Partner(UserOf(BoundarySender)), Undefined}

\* File and image requests, with a file descriptor and without one
\* (`fileData || null` makes a missing descriptor null).
FileRequests ==
  {<<Undefined, t, f>> : t \in {"file", "image"}, f \in {Null, FileDesc}}

NextBoundary ==
  \/ \E t \in BoundaryTargets, x \in BoundaryContents \cup BlankContents :
       SendMessage(BoundarySender, t, x, "text", Null)
  \/ \E r \in FileRequests :
       SendMessage(BoundarySender, Partner(UserOf(BoundarySender)),
                   r[1], r[2], r[3])
  \/ \E o \in ops : SendSave(o)
  \/ \E o \in ops : SendFails(o)
  \/ \E o \in ops : SendEmit(o)

SpecBoundary == EstablishedState(ConnIds, <<>>) /\ [][NextBoundary]_vars

\* --------------------------------------------------- room names of pairs
\* Identifiers: the non-empty strings of at most MaxIdLen digits.
Digits == {1, 2}
KeyIds == UNION {[1 .. n -> Digits] : n \in 1 .. MaxIdLen}

\* getPrivateRoomName is called for the pair (a, b) and for the pair (c, d).
RoomNames(a, b, c, d) ==
  /\ named = <<>>
  /\ named' = <<[user1 |-> a, user2 |-> b, name |-> GetPrivateRoomName(a, b)],
                [user1 |-> c, user2 |-> d, name |-> GetPrivateRoomName(c, d)]>>
  /\ UNCHANGED <<variant, sent, conn, rooms, userRooms, onlineUsers,
                 userSocketMap, typingUsers, dbUsers, db, ops, presence,
                 fanout, direct, clock, nextId, nReq>>

NextRoomNames == \E a, b, c, d \in KeyIds : RoomNames(a, b, c, d)

SpecRoomNames == EstablishedState({}, <<>>) /\ [][NextRoomNames]_vars

\* ------------------------------------------------ rejecting repository
\* The four handlers that call the repository, each with a request that
\* passes its validation (markAsRead and editMessage name a stored message),
\* and every way a repository call of theirs resolves or rejects.
NextRepository ==
  \/ \E c \in ConnIds : JoinPrivateChat(c, Partner(UserOf(c)))
  \/ \E o \in ops : JoinFind(o)
  \/ \E o \in ops : JoinFindFails(o)
  \/ \E o \in ops : JoinDeliver(o)
  \/ \E c \in ConnIds :
       SendMessage(c, Partner(UserOf(c)), <<Space, 7>>, "text", Null)
  \/ \E o \in ops : SendSave(o)
  \/ \E o \in ops : SendFails(o)
  \/ \E o \in ops : SendEmit(o)
  \/ \E c \in ConnIds, id \in MsgIds :
       IndexOf(id) # {} /\ MarkAsRead(c, id)
  \/ \E c \in ConnIds, id \in MsgIds, x \in Contents :
       IndexOf(id) # {} /\ EditMessage(c, id, x)
  \/ \E o \in ops : UpdatedEmit(o)
  \/ \E c \in ConnIds : UpdateFails(c)
  \/ \E o \in ops : UpdatedFails(o)

SpecRepository == InitConversation /\ [][NextRepository]_vars

\* ------------------------------------------- sends in flight at a close
\* Established sockets send to their partners and close; the sendMessage
\* handlers and the disconnect handlers run on in any interleaving.
NextInFlight ==
  \/ \E c \in ConnIds :
       SendMessage(c, Partner(UserOf(c)), <<Space, 7>>, "text", Null)
  \/ \E o \in ops : SendSave(o)
  \/ \E o \in ops : SendFails(o)
  \/ \E o \in ops : SendEmit(o)
  \/ \E c \in ConnIds : Disconnect(c)
  \/ \E c \in ConnIds : DisconnectUpdate(c)
  \/ \E c \in ConnIds : DisconnectUpdateFails(c)
  \/ \E c \in ConnIds : DisconnectResume(c)
  \/ \E c \in ConnIds : DisconnectBroadcast(c)

SpecInFlight == EstablishedState(ConnIds, <<>>) /\ [][NextInFlight]_vars

\* ---------------------------------------------------- typing signals
\* Established sockets, any of them subscribed to the room of its usual
\* partner, signal typing and stopTyping towards any user.
NextTyping ==
  \/ \E c \in ConnIds, t \in Users : Typing(c, t)
  \/ \E c \in ConnIds, t \in Users : StopTyping(c, t)

SpecTyping == InitEstablished /\ [][NextTyping]_vars

\* ------------------------------------------------- a later connection
\* The sockets before the last have connected and joined the chat with
\* their usual partner; the last socket, of a user who already has a
\* session, has not connected yet.
EarlyConns == ConnIds \ {MaxConn}

InitReconnect ==
  /\ variant \in Variants
  /\ conn = [c \in ConnIds |->
               IF c \in EarlyConns
               THEN [user |-> UserOf(c), open |-> TRUE, pc |-> "ready",
                     dpc |-> "none"]
               ELSE FreeConn]
  /\ userRooms = [c \in EarlyConns |->
                    {GetPrivateRoomName(UserOf(c), Partner(UserOf(c)))}]
  /\ rooms = [c \in ConnIds |->
                IF c \in EarlyConns THEN {OwnRoom(c)} \cup userRooms[c]
                ELSE {}]
  /\ onlineUsers = IF variant = "part1" THEN EmptyMap
                   ELSE EstablishedOnline(MaxConn - 1)
  /\ userSocketMap = IF variant = "server" THEN EmptyMap
                     ELSE EstablishedSockets(MaxConn - 1)
  /\ typingUsers = EmptyMap
  /\ dbUsers = [u \in Users |->
                  IF \E c \in EarlyConns : UserOf(c) = u
                  THEN [isOnline |-> TRUE, lastSeen |-> Stamp]
                  ELSE [isOnline |-> FALSE, lastSeen |-> Null]]
  /\ db = <<>>
  /\ ops = {}
  /\ presence = NoPresence
  /\ fanout = <<>>
  /\ direct = <<>>
  /\ clock = 0
  /\ nextId = 0
  /\ nReq = 0
  /\ sent = EmptyMap
  /\ named = <<>>

\* The last socket connects, joins and sends like the others.
NextReconnect ==
  \/ \E c \in ConnIds : Connection(c)
  \/ \E c \in ConnIds : ConnectionUpdate(c)
  \/ \E c \in ConnIds : ConnectionUpdateFails(c)
  \/ \E c \in ConnIds : ConnectionResume(c)
  \/ \E c \in ConnIds : ConnectionBroadcast(c)
  \/ \E c \in ConnIds : JoinPrivateChat(c, Partner(UserOf(c)))
  \/ \E o \in ops : JoinFind(o)
  \/ \E o \in ops : JoinFindFails(o)
  \/ \E o \in ops : JoinDeliver(o)
  \/ \E c \in ConnIds :
       SendMessage(c, Partner(UserOf(c)), <<Space, 7>>, "text", Null)
  \/ \E o \in ops : SendSave(o)
  \/ \E o \in ops : SendFails(o)
  \/ \E o \in ops : SendEmit(o)

SpecReconnect == InitReconnect /\ [][NextReconnect]_vars

\* ------------------------------------------- the life cycle, scheduled
\* The connection life cycle with a repository that answers every update.
\* Clients connect and close when they like; once a handler is suspended
\* at an await, the event loop resumes it when the answer arrives.
NextLifecycle ==
  \/ \E c \in ConnIds : Connection(c)
  \/ \E c \in ConnIds : ConnectionUpdate(c)
  \/ \E c \in ConnIds : ConnectionResume(c)
  \/ \E c \in ConnIds : ConnectionBroadcast(c)
  \/ \E c \in ConnIds : Disconnect(c)
  \/ \E c \in ConnIds : DisconnectUpdate(c)
  \/ \E c \in ConnIds : DisconnectResume(c)
  \/ \E c \in ConnIds : DisconnectBroadcast(c)

\* Every pending continuation of every handler is eventually run.
FairLifecycle ==
  \A c \in ConnIds :
    /\ WF_vars(ConnectionUpdate(c))
    /\ WF_vars(ConnectionResume(c))
    /\ WF_vars(ConnectionBroadcast(c))
    /\ WF_vars(DisconnectUpdate(c))
    /\ WF_vars(DisconnectResume(c))
    /\ WF_vars(DisconnectBroadcast(c))

SpecLifecycle == Init /\ [][NextLifecycle]_vars /\ FairLifecycle

\* ------------------------------------------------ a send across a join
\* Every socket is connected and none has joined. The sockets join the chat
\* with their usual partner and send to that partner, in any order and with
\* the handlers interleaved at their awaits.
NextJoinRace ==
  \/ \E c \in ConnIds : JoinPrivateChat(c, Partner(UserOf(c)))
  \/ \E o \in ops : JoinFind(o)
  \/ \E o \in ops : JoinFindFails(o)
  \/ \E o \in ops : JoinDeliver(o)
  \/ \E c \in ConnIds :
       SendMessage(c, Partner(UserOf(c)), <<Space, 7>>, "text", Null)
  \/ \E o \in ops : SendSave(o)
  \/ \E o \in ops : SendFails(o)
  \/ \E o \in ops : SendEmit(o)

SpecJoinRace == InitHistory /\ [][NextJoinRace]_vars

\* ------------------------------------------------- switching chats
\* Every socket is connected and has joined the chat with its usual
\* partner; the sockets join chats with any user and send.
NextSwitch ==
  \/ \E c \in ConnIds, t \in Users : JoinPrivateChat(c, t)
  \/ \E o \in ops : JoinFind(o)
  \/ \E o \in ops : JoinFindFails(o)
  \/ \E o \in ops : JoinDeliver(o)
  \/ \E c \in ConnIds, t \in Users :
       SendMessage(c, t, <<Space, 7>>, "text", Null)
  \/ \E o \in ops : SendSave(o)
  \/ \E o \in ops : SendFails(o)
  \/ \E o \in ops : SendEmit(o)

SpecSwitch == EstablishedState(ConnIds, <<>>) /\ [][NextSwitch]_vars

\* ------------------------------------------- typing until the session ends
\* Every socket is connected and has joined the chat with its usual
\* partner; the sockets signal typing towards that partner, join chats with
\* any user and close, and the repository answers every update of the
\* disconnect handler.
NextSession ==
  \/ \E c \in ConnIds : Typing(c, Partner(UserOf(c)))
  \/ \E c \in ConnIds : StopTyping(c, Partner(UserOf(c)))
  \/ \E c \in ConnIds, t \in Users : JoinPrivateChat(c, t)
  \/ \E o \in ops : JoinFind(o)
  \/ \E o \in ops : JoinFindFails(o)
  \/ \E o \in ops : JoinDeliver(o)
  \/ \E c \in ConnIds : Disconnect(c)
  \/ \E c \in ConnIds : DisconnectUpdate(c)
  \/ \E c \in ConnIds : DisconnectResume(c)
  \/ \E c \in ConnIds : DisconnectBroadcast(c)

SpecSession == EstablishedState(ConnIds, <<>>) /\ [][NextSession]_vars

\* ---------------------------------------------------------------- C11
\* The requests whose documents a history carries, as the clients sent them.
SentAs(m) == sent[m.id]

\* C11: every message a `recentMessages` history returns that was created
\* by an accepted sendMessage has the content, the type and the file
\* descriptor of that request, unchanged (a request that carried no content
\* puts no condition on the content).
C11_RoundTrip ==
  \A i \in 1 .. Len(direct) :
    direct[i].ev = "recentMessages"
    => \A k \in 1 .. Len(direct[i].msgs) :
         LET m == direct[i].msgs[k] IN
         m.id \in DOMAIN sent
         => /\ SentAs(m).content # Undefined => m.content = SentAs(m).content
            /\ m.messageType = SentAs(m).messageType
            /\ m.fileData = SentAs(m).fileData

\* ---------------------------------------------------------------- C12
\* C12: a sendMessage whose text is at most 1000 characters long (and not
\* blank) is accepted: the handler constructs the document with the trimmed
\* text and reports no error, and save() accepts the document; a text of
\* 1001 characters is rejected: no document is constructed, nothing is
\* stored, and no stored or pending document is longer than 1000 characters.
C12_LengthBoundary ==
  [][/\ \A x \in BoundaryContents :
          SendMessage(BoundarySender, Partner(UserOf(BoundarySender)), x,
                      "text", Null)
          => IF Len(x) <= MaxContentLen
             THEN /\ \E o \in ops' \ ops :
                       /\ o.kind = "send" /\ o.phase = "save"
                       /\ o.docs[1].content = Trim(x)
                  /\ direct' = direct
             ELSE ops' = ops /\ db' = db /\ nextId' = nextId
     /\ \A o \in ops :
          (o.kind = "send" /\ o.phase = "save")
          => /\ Len(o.docs[1].content) <= MaxContentLen
             /\ ENABLED SendSave(o)
     /\ \A i \in 1 .. Len(db') : Len(db'[i].content) <= MaxContentLen
    ]_vars

\* A text of exactly 1000 characters is stored, and another request of the
\* behaviour constructed no document.
C12_Witness ==
  /\ \E i \in 1 .. Len(db) :
       db[i].id > 0 /\ Len(db[i].content) = MaxContentLen
  /\ nReq > nextId
  /\ \E j \in 1 .. Len(direct) : direct[j].ev = "error"

\* ---------------------------------------------------------------- C13
\* A text request the specification calls invalid: it names no target, or
\* its text is missing, empty or all white space, or longer than the limit.
Blank(x) == x = Undefined \/ \A i \in 1 .. Len(x) : x[i] = Space
FailsValidation(t, x) ==
  t = Undefined \/ Blank(x) \/ Len(x) > MaxContentLen

\* C13: a sendMessage that fails validation constructs and stores no
\* message, starts no repository call, broadcasts nothing to a room and
\* leaves the presence registries, the user records and every socket's
\* room subscriptions as they were.
C13_RejectedSendFrame ==
  [][\A t \in BoundaryTargets, x \in BoundaryContents \cup BlankContents :
       (FailsValidation(t, x) /\ SendMessage(BoundarySender, t, x, "text", Null))
       => UNCHANGED <<db, ops, nextId, clock, fanout, presence, rooms,
                      userRooms, onlineUsers, userSocketMap, typingUsers,
                      dbUsers, conn>>
    ]_vars

\* Two requests were rejected, one of them silently; nothing is stored or
\* pending.
C13_Witness ==
  /\ nReq >= 2 /\ nextId = 0 /\ ops = {} /\ db = <<>>
  /\ Len(direct) = 1 /\ direct[1].ev = "error"

\* ---------------------------------------------------------------- C14
\* C14: every sendMessage that fails validation, for a missing target, an
\* oversize text or an empty text, makes the handler emit one `error`
\* event, to the requesting socket.
C14_RejectedSendReportsError ==
  [][\A t \in BoundaryTargets, x \in BoundaryContents \cup BlankContents :
       (FailsValidation(t, x) /\ SendMessage(BoundarySender, t, x, "text", Null))
       => /\ Len(direct') = Len(direct) + 1
          /\ Last(direct').ev = "error"
          /\ Last(direct').to = {BoundarySender}
    ]_vars

\* ---------------------------------------------------------------- C15
\* C15: a sendMessage of type file or image that carries no file descriptor
\* is rejected: no such message is stored, and none is broadcast.
C15_FileNeedsDescriptor ==
  /\ \A i \in 1 .. Len(db) :
       db[i].messageType \in {"file", "image"} => db[i].fileData # Null
  /\ \A i \in 1 .. Len(fanout) :
       \A k \in 1 .. Len(fanout[i].msgs) :
         fanout[i].msgs[k].messageType \in {"file", "image"}
         => fanout[i].msgs[k].fileData # Null

\* ---------------------------------------------------------------- C16
\* C16: an editMessage that names a stored message replaces its content,
\* sets edited and editedAt and changes nothing else in the collection; and
\* unless the repository call rejects, the handler then emits one
\* `messageEdited` event carrying the updated message to exactly the
\* sockets subscribed to canonical(sender, receiver) of that message.
C16_EditReplacesAndFansOut ==
  [][/\ \A c \in ConnIds, id \in MsgIds, x \in Contents :
          (EditMessage(c, id, x) /\ IndexOf(id) # {})
          => \E i \in IndexOf(id) :
               /\ db'[i].content = x
               /\ db'[i].edited = TRUE
               /\ db'[i].editedAt # Null
               /\ [db'[i] EXCEPT !.content = db[i].content,
                                 !.edited = db[i].edited,
                                 !.editedAt = db[i].editedAt] = db[i]
               /\ Len(db') = Len(db)
               /\ \A j \in 1 .. Len(db) : j # i => db'[j] = db[j]
               /\ \E o \in ops' \ ops :
                    o.kind = "edit" /\ o.conn = c /\ o.docs = <<db'[i]>>
     /\ \A o \in ops \ ops' :
          o.kind = "edit"
          => \/ UpdatedFails(o)
             \/ /\ Len(fanout') = Len(fanout) + 1
                /\ LET e == Last(fanout')
                       m == o.docs[1]
                   IN  /\ e.ev = "messageEdited"
                       /\ e.msgs = <<m>>
                       /\ m.edited = TRUE /\ m.editedAt # Null
                       /\ e.to = {c \in ConnIds :
                                    Canonical(m.sender, m.receiver) \in rooms[c]}
    ]_vars

\* The stored message was edited, and sockets subscribed to the room of its
\* sender and receiver have received the `messageEdited` event with it.
C16_Witness ==
  \E i \in 1 .. Len(fanout), j \in 1 .. Len(db) :
    /\ fanout[i].ev = "messageEdited"
    /\ fanout[i].to # {}
    /\ fanout[i].msgs = <<db[j]>>
    /\ db[j].edited = TRUE
    /\ db[j].content = <<Space, 7>>

\* ---------------------------------------------------------------- C17
\* C17: no stored private message has its sender as its receiver (a
\* sendMessage that names the requester's own identity stores nothing).
C17_NoSelfMessage ==
  \A i \in 1 .. Len(db) : db[i].sender # db[i].receiver

\* ---------------------------------------------------------------- C18
\* C18: the room names of two pairs of identifiers are equal exactly when
\* the two pairs hold the same identifiers, in either order.
C18_RoomKeyInjective ==
  \A i, j \in 1 .. Len(named) :
    named[i].name = named[j].name
    <=> {named[i].user1, named[i].user2} = {named[j].user1, named[j].user2}

\* Two distinct identifiers of different lengths, named in both orders,
\* have one room name.
C18_Witness ==
  /\ Len(named) = 2
  /\ named[1].user1 = named[2].user2 /\ named[1].user2 = named[2].user1
  /\ named[1].user1 # named[1].user2
  /\ Len(named[1].user1) # Len(named[1].user2)
  /\ named[1].name = named[2].name

\* ---------------------------------------------------------------- C19
\* The step reports an error to socket c and to nobody else, and emits
\* nothing to a room.
ErrorReportedTo(c) ==
  /\ Len(direct') = Len(direct) + 1
  /\ Last(direct').ev = "error"
  /\ Last(direct').src = c
  /\ Last(direct').to = (IF conn[c].open THEN {c} ELSE {})
  /\ fanout' = fanout
  /\ presence' = presence

\* C19: every step in which a repository call of joinPrivateChat,
\* sendMessage, markAsRead or editMessage rejects emits an `error` event to
\* the requesting socket and no event to any other socket.
C19_RepositoryFailureReported ==
  [][/\ \A o \in ops : JoinFindFails(o) => ErrorReportedTo(o.conn)
     /\ \A o \in ops : SendFails(o) => ErrorReportedTo(o.conn)
     /\ \A o \in ops : UpdatedFails(o) => ErrorReportedTo(o.conn)
     /\ \A c \in ConnIds : UpdateFails(c) => ErrorReportedTo(c)
    ]_vars

\* ---------------------------------------------------------------- C20
\* Socket c has received an `error` event.
GotError(c) ==
  \E i \in 1 .. Len(direct) : direct[i].ev = "error" /\ c \in direct[i].to

\* A request of socket c that passes validation.
ValidSend(c) ==
  SendMessage(c, Partner(UserOf(c)), <<Space, 7>>, "text", Null)

\* C20: an `error` event is emitted only by a step of the handler of the
\* socket it reports to (that socket's rejected request, or the rejection of
\* a repository call of its handler), reaches that socket only, and never
\* goes to a room or to all sockets; and a socket that has received an
\* `error` still has its valid requests accepted, the handler constructing
\* the document and calling save() as for any other socket.
C20_ErrorsStayWithRequester ==
  [][/\ (Len(direct') > Len(direct) /\ Last(direct').ev = "error")
          => LET e == Last(direct') IN
             /\ e.to = {e.src}
             /\ \/ \E o \in ops \ ops' : o.conn = e.src
                \/ \E t \in Targets, r \in SendRequests :
                     /\ SendMessage(e.src, t, r[1], r[2], r[3])
                     /\ SendVerdict(t, r[1], r[2]) # "ok"
     /\ \A i \in 1 .. Len(fanout') : fanout'[i].ev # "error"
     /\ presence'.ev # "error"
     /\ \A c \in ConnIds :
          (GotError(c) /\ nReq < MaxReq /\ nextId < MaxMsgs)
          => /\ ENABLED ValidSend(c)
             /\ ValidSend(c)
                => \E o \in ops' \ ops :
                     /\ o.kind = "send" /\ o.phase = "save" /\ o.conn = c
                     /\ o.docs[1].sender = UserOf(c)
                     /\ o.docs[1].content = <<7>>
    ]_vars

\* The first request of a socket was rejected with an `error`; its second
\* request was accepted after that and is being saved.
C20_Witness ==
  \E c \in ConnIds :
    /\ GotError(c)
    /\ nReq = 2 /\ nextId = 1
    /\ \E o \in ops :
         o.kind = "send" /\ o.phase = "save" /\ o.conn = c /\ o.id = 2

\* ---------------------------------------------------------------- C21
\* C21: the `message` events of two sendMessage requests of one socket to
\* one target are fanned out to the room, and so observed by that socket
\* when it is subscribed, in the order the requests were issued (document
\* ids are given in the order of the requests).
C21_OwnSendsInIssueOrder ==
  \A i, j \in 1 .. Len(fanout) :
    (/\ i < j
     /\ fanout[i].ev = "message" /\ fanout[j].ev = "message"
     /\ fanout[i].src = fanout[j].src
     /\ fanout[i].room = fanout[j].room
     /\ fanout[i].src \in fanout[i].to /\ fanout[j].src \in fanout[j].to)
    => fanout[i].msgs[1].id < fanout[j].msgs[1].id

\* ---------------------------------------------------------------- C22
\* The sendMessage handlers of sockets whose transport has closed.
Orphaned == {o \in ops : o.kind = "send" /\ ~conn[o.conn].open}

\* C22: the close of a socket cancels no sendMessage handler: a handler
\* of a closed socket that waits for save() can still store its document
\* and one that waits for populate() can still emit; when it emits, the
\* document is stored and the `message` event goes to exactly the sockets
\* subscribed to the room of sender and receiver, the closed socket not
\* among them; and no event of any kind reaches a closed socket.
C22_InFlightSendCompletes ==
  [][/\ \A o \in ops : \A c \in ConnIds :
          (Disconnect(c) /\ o.kind = "send" /\ o.conn = c) => o \in ops'
     /\ \A o \in Orphaned :
          /\ o.phase = "save" => ENABLED SendSave(o)
          /\ o.phase = "populate" => ENABLED SendEmit(o)
     /\ \A o \in Orphaned :
          (o \notin ops' /\ fanout' # fanout)
          => LET e == Last(fanout')
                 m == o.docs[1]
             IN  /\ e.ev = "message" /\ e.msgs[1].id = m.id
                 /\ \E i \in 1 .. Len(db) : db[i] = m
                 /\ e.to = {d \in ConnIds :
                              Canonical(m.sender, m.receiver) \in rooms[d]}
                 /\ o.conn \notin e.to
     /\ \A i \in 1 .. Len(fanout') :
          i > Len(fanout) => \A d \in fanout'[i].to : conn[d].open
     /\ \A i \in 1 .. Len(direct') :
          i > Len(direct) => \A d \in direct'[i].to : conn[d].open
     /\ presence' # presence => \A d \in presence'.to : conn[d].open
    ]_vars

\* A socket sent a message and closed before the handler emitted; the
\* message is stored and was fanned out to the subscribed partner, not to
\* the closed socket.
C22_Witness ==
  \E c \in ConnIds : \E i \in 1 .. Len(fanout), j \in 1 .. Len(db) :
    /\ ~conn[c].open
    /\ fanout[i].ev = "message" /\ fanout[i].src = c
    /\ c \notin fanout[i].to /\ fanout[i].to # {}
    /\ db[j].id = fanout[i].msgs[1].id

\* ---------------------------------------------------------------- C23
\* The connection handler or the disconnect handler of socket c has started
\* and not come to its end.
InFlight(c) ==
  \/ conn[c].pc \in {"updating", "updated", "listing"}
  \/ conn[c].dpc \in {"updating", "updated", "listing"}

\* C23: whenever no connection handler and no disconnect handler is in
\* flight, the stored isOnline flag of every user equals whether the
\* in-memory registry records the user online.
C23_PresenceMirror ==
  (\A c \in ConnIds : ~InFlight(c))
  => \A u \in Users : dbUsers[u].isOnline = RecordedOnline(u)

\* ---------------------------------------------------------------- C24
\* C24: the step in which the user-record update of a disconnect handler
\* rejects still completes the disconnect: the socket's entry of tracked
\* rooms is removed, the registry no longer records the user online, and a
\* presence broadcast is emitted.
C24_DisconnectSurvivesUpdateFailure ==
  [][\A c \in ConnIds :
       DisconnectUpdateFails(c)
       => /\ userRooms'[c] = {}
          /\ ~RecordedOnline(UserOf(c))'
          /\ presence'.n = presence.n + 1]_vars

\* ---------------------------------------------------------------- C25
\* No stored message has this id.
UnknownId(id) == \A i \in 1 .. Len(db) : db[i].id # id

\* C25: a markAsRead or editMessage request whose message id matches no
\* stored message emits no event to any socket, starts nothing, and leaves
\* the collections, the registries and the room subscriptions unchanged.
C25_UnknownIdIgnored ==
  [][\A c \in ConnIds, id \in MsgIds :
       (/\ UnknownId(id)
        /\ \/ MarkAsRead(c, id)
           \/ \E x \in Contents : EditMessage(c, id, x))
       => UNCHANGED <<db, ops, fanout, direct, presence, rooms, userRooms,
                      onlineUsers, userSocketMap, typingUsers, dbUsers,
                      conn, nextId>>
    ]_vars

\* A markAsRead for an unknown id was handled a tick after the start:
\* nothing was stored, started or emitted.
C25_Witness ==
  /\ nReq >= 1 /\ clock >= 1
  /\ db = Stored(1) /\ ops = {}
  /\ fanout = <<>> /\ direct = <<>> /\ presence = NoPresence

\* ---------------------------------------------------------------- C26
\* C26: every stored message of type text has a content that is not empty
\* and is at most 1000 characters long.
C26_TextContentWithinSchema ==
  \A i \in 1 .. Len(db) :
    db[i].messageType = "text"
    => /\ ~Falsy(db[i].content)
       /\ Len(db[i].content) <= MaxContentLen

\* ---------------------------------------------------------------- C27
\* Socket c signals ev towards target t in this step.
Signals(c, t, ev) ==
  IF ev = "typing" THEN Typing(c, t) ELSE StopTyping(c, t)

\* C27: every typing or stopTyping signal of socket c with a target t emits
\* one event of that name to exactly the other sockets subscribed to
\* canonical(identity(c), t); a signal without target emits nothing.
C27_TypingReachesOthers ==
  [][\A c \in ConnIds, ev \in {"typing", "stopTyping"} :
       /\ \A t \in Users :
            Signals(c, t, ev)
            => /\ Len(fanout') = Len(fanout) + 1
               /\ Last(fanout').ev = ev
               /\ Last(fanout').to =
                    {d \in ConnIds \ {c} :
                       Canonical(UserOf(c), t) \in rooms[d]}
               /\ direct' = direct /\ presence' = presence
       /\ Signals(c, Undefined, ev)
            => fanout' = fanout /\ direct' = direct /\ presence' = presence
    ]_vars

\* ---------------------------------------------------------------- C28
\* C28: handling a typing or stopTyping signal leaves the state of the
\* server as it was: the typing sets, the collections, the registries and
\* the room subscriptions.
C28_TypingStateless ==
  [][\A c \in ConnIds, t \in Targets, ev \in {"typing", "stopTyping"} :
       Signals(c, t, ev)
       => UNCHANGED <<typingUsers, db, dbUsers, ops, rooms, userRooms,
                      onlineUsers, userSocketMap, conn>>
    ]_vars

\* ---------------------------------------------------------------- C29
\* A step of the connection handler of socket c.
ConnectionStep(c) ==
  \/ Connection(c)
  \/ ConnectionUpdate(c)
  \/ ConnectionUpdateFails(c)
  \/ ConnectionResume(c)
  \/ ConnectionBroadcast(c)

\* C29: no step of the connection handler of a socket changes another
\* socket: it stays connected with its handlers, and its room subscriptions
\* and its tracked rooms stay as they were; and every event emitted to a
\* room reaches every connected socket subscribed to it, an earlier session
\* of a user who has connected again included.
C29_EarlierSessionUntouched ==
  [][/\ \A c \in ConnIds :
          ConnectionStep(c)
          => \A d \in ConnIds \ {c} :
               conn[d].open
               => /\ conn'[d] = conn[d]
                  /\ rooms'[d] = rooms[d]
                  /\ userRooms'[d] = userRooms[d]
     /\ Len(fanout') > Len(fanout)
          => LET e == Last(fanout') IN
             e.ev = "message"
             => \A d \in ConnIds :
                  (conn[d].open /\ e.room \in rooms[d]) => d \in e.to
    ]_vars

\* A later socket of a user has connected, joined and sent a message; the
\* user's earlier socket is still connected and subscribed and received
\* the `message` event.
C29_Witness ==
  \E c, d \in ConnIds : \E i \in 1 .. Len(fanout) :
    /\ d < c /\ UserOf(d) = UserOf(c) /\ c \notin EarlyConns
    /\ conn[c].pc = "ready" /\ conn[d].open
    /\ userRooms[d] # {} /\ userRooms[d] \subseteq rooms[d]
    /\ fanout[i].ev = "message" /\ fanout[i].src = c
    /\ d \in fanout[i].to

\* ---------------------------------------------------------------- C30
\* C30: a markAsRead or editMessage request changes a stored message only
\* if the user of the requesting socket is the sender or the receiver of
\* that message.
C30_OnlyParticipantsUpdate ==
  [][\A c \in ConnIds, id \in MsgIds :
       (\/ MarkAsRead(c, id)
        \/ \E x \in Contents : EditMessage(c, id, x))
       => \A i \in 1 .. Len(db) :
            db'[i] # db[i] => UserOf(c) \in {db[i].sender, db[i].receiver}
    ]_vars

\* ---------------------------------------------------------------- C31
\* Socket c has connected and its transport has closed.
ClosedAfterConnect(c) == conn[c].pc # "free" /\ ~conn[c].open

\* C31: whenever a socket that has connected is closed, the presence
\* registry eventually does not record it as the active connection of its
\* user, whatever the connection handler was doing when the transport
\* closed.
C31_ClosedConnectionUnrecorded ==
  \A c \in ConnIds :
    ClosedAfterConnect(c) ~> (ActiveConn(UserOf(c)) # c)

\* ---------------------------------------------------------------- C32
\* The ids of the documents a `recentMessages` history lists.
HistoryIds(d) == {d.msgs[k].id : k \in 1 .. Len(d.msgs)}

\* C32: for every join that has delivered its `recentMessages` history to
\* its socket and every `message` event emitted to the room of that join,
\* the socket received the event or the history lists the message.
C32_NoMessageLostAcrossJoin ==
  \A i \in 1 .. Len(direct) : \A k \in 1 .. Len(fanout) :
    LET d == direct[i]
        f == fanout[k]
    IN  (/\ d.ev = "recentMessages"
         /\ f.ev = "message"
         /\ f.room = d.room)
        => \/ d.src \in f.to
           \/ f.msgs[1].id \in HistoryIds(d)

\* A message of the partner was saved after the history query of a join
\* had been answered: the history of that join does not list it, and the
\* `message` event reached the joining socket.
C32_Witness ==
  \E i \in 1 .. Len(direct) : \E k \in 1 .. Len(fanout) :
    LET d == direct[i]
        f == fanout[k]
    IN  /\ d.ev = "recentMessages" /\ d.to = {d.src}
        /\ f.ev = "message" /\ f.room = d.room
        /\ UserOf(f.src) # UserOf(d.src)
        /\ f.msgs[1].id \notin HistoryIds(d)
        /\ d.src \in f.to

\* ---------------------------------------------------------------- C33
\* C33: in the server revision a socket is subscribed to at most one
\* private room, before and after every step; a joinPrivateChat step leaves
\* the socket subscribed to the room of the requested chat and to no other
\* private room; and a `message` event reaches only sockets whose one
\* private room is the room of the event.
C33_OnePrivateRoom ==
  [][variant = "server"
     => /\ \A c \in ConnIds :
             /\ Cardinality(PrivateRooms(c)) <= 1
             /\ Cardinality(rooms'[c] \ {OwnRoom(c)}) <= 1
        /\ \A c \in ConnIds, t \in Users :
             JoinPrivateChat(c, t)
             => rooms'[c] \ {OwnRoom(c)}
                  = {GetPrivateRoomName(UserOf(c), t)}
        /\ Len(fanout') > Len(fanout)
             => LET e == Last(fanout') IN
                \A d \in e.to : PrivateRooms(d) = {e.room}
    ]_vars

\* In the server revision a socket that started in the chat with its
\* partner has joined another chat and received its history; a message of
\* the partner to the socket's user was then emitted to the room of the
\* earlier chat, reached a socket there, and did not reach this socket.
C33_Witness ==
  /\ variant = "server"
  /\ \E i \in 1 .. Len(direct) : \E k \in 1 .. Len(fanout) :
       LET d == direct[i]
           f == fanout[k]
           c == d.src
       IN  /\ d.ev = "recentMessages" /\ d.to = {c}
           /\ f.ev = "message"
           /\ f.room = GetPrivateRoomName(UserOf(c), Partner(UserOf(c)))
           /\ d.room # f.room
           /\ f.msgs[1].receiver = UserOf(c)
           /\ f.to # {}
           /\ c \notin f.to
           /\ conn[c].open
           /\ PrivateRooms(c) = {d.room}

\* ---------------------------------------------------------------- C34
\* The sockets user u has connected with.
SessionsOf(u) == {c \in ConnIds : conn[c].user = u}

\* C34: in the server revision, when the only socket of a user has closed
\* and its disconnect handler has run to its end, no room of typingUsers
\* holds the typing key of that user.
C34_NoTypingKeyAfterDisconnect ==
  variant = "server"
  => \A c \in ConnIds :
       (/\ SessionsOf(UserOf(c)) = {c}
        /\ ~conn[c].open
        /\ conn[c].dpc = "done")
       => \A r \in DOMAIN typingUsers : TypingKey(c) \notin typingUsers[r]
====
